---- MODULE Spec2Model ----
(***************************************************************************)
(* nanocalc: the Rayleigh-approximation scattering engine (MieModel) and   *)
(* its OpticalModel / PhysicsModel contract.                               *)
(*                                                                         *)
(* f64 values are modelled as decimal floating-point numbers with the      *)
(* IEEE-754 special values: a finite value is [m, e], standing for         *)
(* m * 10^e, with a mantissa m of Digits decimal digits and an exponent    *)
(* between -EMax and EMax.  Every operation rounds its exact result to     *)
(* the nearest representable value, overflows to +inf or -inf, underflows  *)
(* to zero, and propagates NaN as IEEE-754 does.  Signed zeros and         *)
(* subnormal numbers are not modelled.                                     *)
(***************************************************************************)
EXTENDS Integers, Sequences, FiniteSets, TLC

\* ------------------------------------------------------------------ bounds

\* Decimal digits of a mantissa of the modelled f64.
Digits == 3

\* Largest decimal exponent of the modelled f64.
EMax == 20

\* Longest wavelength sequence handed to calculate_spectrum.
MaxLen == 2

\* Number of workers of the sharded spectrum evaluation.
NumWorkers == 2

\* Number of frames of the window the presentation specification follows.
MaxFrames == 3

\* Number of handler calls the handler specification follows.
MaxCalls == 2

\* ------------------------------------------------------------------- f64

MantLimit == 10 ^ Digits
MantMin == 10 ^ (Digits - 1)

Float(m, e) == [m |-> m, e |-> e]

Zero == Float(0, 0)
PInf == Float(1, EMax + 1)
NInf == Float(0 - 1, EMax + 1)
NaN == Float(0, EMax + 1)

\* f64::MAX
MaxFinite == Float(MantLimit - 1, EMax)

IsNaN(a) == a = NaN
IsInf(a) == a = PInf \/ a = NInf
IsFinite(a) == a.e <= EMax
IsZero(a) == a = Zero

Mag(i) == IF i < 0 THEN 0 - i ELSE i
Sgn(i) == IF i < 0 THEN 0 - 1 ELSE IF i = 0 THEN 0 ELSE 1
InfOf(s) == IF s < 0 THEN NInf ELSE PInf

\* The number of low digits to drop from mag to fit a mantissa.
RECURSIVE DropDigits(_)
DropDigits(mag) == IF mag < MantLimit THEN 0 ELSE 1 + DropDigits(mag \div 10)

\* The number of zero digits to append to mag > 0 to fill a mantissa.
RECURSIVE FillDigits(_)
FillDigits(mag) == IF mag >= MantMin THEN 0 ELSE 1 + FillDigits(mag * 10)

\* Overflow to infinity, underflow to zero.
Ranged(s, mag, e) ==
    IF e > EMax THEN InfOf(s)
    ELSE IF e < 0 - EMax THEN Zero
    ELSE Float(s * mag, e)

\* A mantissa rounded up to MantLimit carries into the exponent.
Carried(s, r, e) ==
    IF r = MantLimit THEN Ranged(s, MantMin, e + 1) ELSE Ranged(s, r, e)

\* mag with its k low digits rounded away.
Shortened(s, mag, e, k) ==
    Carried(s, (mag + ((10 ^ k) \div 2)) \div (10 ^ k), e + k)

\* mag with k zero digits appended.
Lengthened(s, mag, e, k) == Ranged(s, mag * (10 ^ k), e - k)

\* The value s * mag * 10^e (s a sign, mag >= 0) rounded to the nearest f64.
Round(s, mag, e) ==
    IF mag = 0 THEN Zero
    ELSE IF mag < MantMin THEN Lengthened(s, mag, e, FillDigits(mag))
    ELSE Shortened(s, mag, e, DropDigits(mag))

\* The literal n * 10^e.
Lit(n, e) == Round(Sgn(n), Mag(n), e)

\* a < b for two values that are not NaN.
Below(a, b) ==
    IF Sgn(a.m) # Sgn(b.m) THEN Sgn(a.m) < Sgn(b.m)
    ELSE IF Sgn(a.m) = 0 THEN FALSE
    ELSE IF Sgn(a.m) > 0 THEN a.e < b.e \/ (a.e = b.e /\ a.m < b.m)
    ELSE a.e > b.e \/ (a.e = b.e /\ a.m < b.m)

\* The f64 comparisons: every comparison with NaN is false.
FLt(a, b) == ~IsNaN(a) /\ ~IsNaN(b) /\ Below(a, b)
FGt(a, b) == FLt(b, a)
FLe(a, b) == ~IsNaN(a) /\ ~IsNaN(b) /\ ~Below(b, a)
FGe(a, b) == FLe(b, a)
FEq(a, b) == ~IsNaN(a) /\ ~IsNaN(b) /\ a = b

FNeg(a) == Float(0 - a.m, a.e)

FAbs(a) == Float(Mag(a.m), a.e)

\* The exact sum sum * 10^e, rounded.
Summed(sum, e) == Round(Sgn(sum), Mag(sum), e)

\* a + b for finite a and b of which a has the larger exponent.
AddAligned(a, b) ==
    IF a.e - b.e > Digits + 1 THEN a
    ELSE Summed(a.m * (10 ^ (a.e - b.e)) + b.m, b.e)

FAdd(a, b) ==
    IF IsNaN(a) \/ IsNaN(b) THEN NaN
    ELSE IF IsInf(a) /\ IsInf(b) THEN (IF a = b THEN a ELSE NaN)
    ELSE IF IsInf(a) THEN a
    ELSE IF IsInf(b) THEN b
    ELSE IF IsZero(a) THEN b
    ELSE IF IsZero(b) THEN a
    ELSE IF a.e >= b.e THEN AddAligned(a, b)
    ELSE AddAligned(b, a)

FSub(a, b) == FAdd(a, FNeg(b))

FMul(a, b) ==
    IF IsNaN(a) \/ IsNaN(b) THEN NaN
    ELSE IF IsZero(a) \/ IsZero(b) THEN (IF IsInf(a) \/ IsInf(b) THEN NaN ELSE Zero)
    ELSE IF IsInf(a) \/ IsInf(b) THEN InfOf(Sgn(a.m) * Sgn(b.m))
    ELSE Round(Sgn(a.m) * Sgn(b.m), Mag(a.m) * Mag(b.m), a.e + b.e)

FDiv(a, b) ==
    IF IsNaN(a) \/ IsNaN(b) THEN NaN
    ELSE IF IsInf(a) THEN (IF IsInf(b) THEN NaN
                          ELSE IF IsZero(b) THEN a
                          ELSE InfOf(Sgn(a.m) * Sgn(b.m)))
    ELSE IF IsInf(b) THEN Zero
    ELSE IF IsZero(b) THEN (IF IsZero(a) THEN NaN ELSE InfOf(Sgn(a.m)))
    ELSE IF IsZero(a) THEN Zero
    ELSE Round(Sgn(a.m) * Sgn(b.m),
               (Mag(a.m) * (10 ^ (Digits + 1))) \div Mag(b.m),
               a.e - b.e - (Digits + 1))

\* f64::powi(2) and f64::powi(4): repeated squaring.
Powi2(a) == FMul(a, a)
Powi4(a) == Powi2(Powi2(a))

\* std::f64::consts::PI
PI == Lit(314159, 0 - 5)

\* --------------------------------------------------------------- Complex64

Complex64(re, im) == [re |-> re, im |-> im]

\* Complex64 * Complex64
CMul(a, b) ==
    Complex64(FSub(FMul(a.re, b.re), FMul(a.im, b.im)),
              FAdd(FMul(a.re, b.im), FMul(a.im, b.re)))

CAdd(a, b) == Complex64(FAdd(a.re, b.re), FAdd(a.im, b.im))

CSub(a, b) == Complex64(FSub(a.re, b.re), FSub(a.im, b.im))

\* Complex64 / f64: each part divided by the scalar.
CDivReal(a, t) == Complex64(FDiv(a.re, t), FDiv(a.im, t))

norm_sqr(a) == FAdd(FMul(a.re, a.re), FMul(a.im, a.im))

\* Complex64 / Complex64: (a * conj(b)) / |b|^2, part by part.
CDiv(a, b) ==
    Complex64(FDiv(FAdd(FMul(a.re, b.re), FMul(a.im, b.im)), norm_sqr(b)),
              FDiv(FSub(FMul(a.im, b.re), FMul(a.re, b.im)), norm_sqr(b)))

\* ---------------------------------------------------------- core::types

RefractiveIndex(n, k) == [real |-> n, imaginary |-> k]

to_complex(ri) == Complex64(ri.real, ri.imaginary)

InvalidParameter(reason) == [variant |-> "InvalidParameter", reason |-> reason]

\* CalculationError::Validation(#[from] ValidationError)
FromValidation(e) == [variant |-> "Validation", source |-> e]

\* Option::Some
Some(v) == <<v>>

Ok(v) == [ok |-> TRUE, val |-> v]
Err(e) == [ok |-> FALSE, err |-> e]

\* ------------------------------------------------------------ core::units

\* core::constants, entry by entry: the literal each constant is written with.
ConstantsTable ==
    [C |-> "2.99792458e8", C_NM_S |-> "2.99792458e17", H |-> "6.62607015e-34",
     HBAR |-> "1.054571817e-34", K_B |-> "1.380649e-23", E |-> "1.602176634e-19",
     M_E |-> "9.1093837015e-31", M_P |-> "1.67262192369e-27",
     N_A |-> "6.02214076e23", EPSILON_0 |-> "8.8541878128e-12",
     MU_0 |-> "1.25663706212e-6", ALPHA |-> "7.2973525693e-3",
     RY |-> "13.605693122994", BOHR_RADIUS |-> "5.29177210903e-11",
     BOHR_RADIUS_NM |-> "0.05291772109", EV_TO_J |-> "1.602176634e-19",
     J_TO_EV |-> "6.241509074e18", NM_TO_M |-> "1e-9", M_TO_NM |-> "1e9",
     HC_EV_NM |-> "1239.84193", AMU_TO_KG |-> "1.66053906660e-27",
     K_B_T_300K_EV |-> "0.02585", K_B_T_300K_J |-> "4.14e-21"]

\* The f64 a literal denotes, for the literals the conversions are written
\* with.
literal(text) ==
    CASE text = "1e-9"          -> Lit(1, 0 - 9)
      [] text = "1239.84193"    -> Lit(123984193, 0 - 5)
      [] text = "2.99792458e17" -> Lit(299792458, 9)
      [] text = "273.15"        -> Lit(27315, 0 - 2)

\* The literal in the body of each conversion of core::types::units.
unit_literal ==
    [to_meters |-> "1e-9", to_energy_ev |-> "1239.84193",
     to_frequency_hz |-> "2.99792458e17", to_celsius |-> "273.15"]

\* Nanometer::to_meters
to_meters(self) == FMul(self, literal(unit_literal.to_meters))

\* Wavelength::to_energy_ev
to_energy_ev(self) == FDiv(literal(unit_literal.to_energy_ev), self)

\* Wavelength::to_frequency_hz
to_frequency_hz(self) == FDiv(literal(unit_literal.to_frequency_hz), self)

\* Kelvin::to_celsius
to_celsius(self) == FSub(self, literal(unit_literal.to_celsius))

\* ------------------------------------------------------------- MieModel

MieModel(radius, wavelength, n_particle, n_medium) ==
    [radius |-> radius, wavelength |-> wavelength,
     n_particle |-> n_particle, n_medium |-> n_medium]

\* The size parameter without the factor 2.
size_parameter_without_two(self) ==
    FDiv(FMul(PI, self.radius), self.wavelength)

size_parameter(self) ==
    FDiv(FMul(FMul(Lit(2, 0), PI), self.radius), self.wavelength)

\* m = n_particle / n_medium
relative_index(self) == CDivReal(to_complex(self.n_particle), self.n_medium)

m2_minus_1(m) == CSub(CMul(m, m), Complex64(Lit(1, 0), Zero))

m2_plus_2(m) == CAdd(CMul(m, m), Complex64(Lit(2, 0), Zero))

\* The OpticalResult with the metadata of OpticalMetadata::default().
optical_result_default_metadata(self, x, q_sca, q_abs, q_ext, geometric_area) ==
    [wavelength |-> self.wavelength,
     q_sca |-> q_sca,
     q_abs |-> q_abs,
     q_ext |-> q_ext,
     c_sca |-> FMul(q_sca, geometric_area),
     c_abs |-> FMul(q_abs, geometric_area),
     c_ext |-> FMul(q_ext, geometric_area),
     metadata |-> [num_terms |-> <<>>,
                   converged |-> FALSE,
                   size_parameter |-> Zero,
                   notes |-> <<>>]]

\* The OpticalResult built from the efficiencies and the geometric area.
optical_result(self, x, q_sca, q_abs, q_ext, geometric_area) ==
    [wavelength |-> self.wavelength,
     q_sca |-> q_sca,
     q_abs |-> q_abs,
     q_ext |-> q_ext,
     c_sca |-> FMul(q_sca, geometric_area),
     c_abs |-> FMul(q_abs, geometric_area),
     c_ext |-> FMul(q_ext, geometric_area),
     metadata |-> [num_terms |-> Some(1),
                   converged |-> TRUE,
                   size_parameter |-> x,
                   notes |-> <<"Rayleigh approximation">>]]

\* The extinction with a geometric area of PI * radius.
extinction_unsquared(self, x, q_sca, q_abs) ==
    optical_result(self, x, q_sca, q_abs, FAdd(q_sca, q_abs),
                   FMul(PI, self.radius))

\* let q_ext = q_sca + q_abs; let geometric_area = PI * radius.powi(2);
extinction(self, x, q_sca, q_abs) ==
    optical_result(self, x, q_sca, q_abs, FAdd(q_sca, q_abs),
                   FMul(PI, Powi2(self.radius)))

\* The efficiencies with x.powi(3) for x.powi(4).
efficiencies_cubed(self, x, m) ==
    extinction(self, x,
               FMul(FMul(FDiv(Lit(8, 0), Lit(3, 0)), FMul(x, Powi2(x))),
                    norm_sqr(CDiv(m2_minus_1(m), m2_plus_2(m)))),
               FMul(FMul(Lit(4, 0), x), CDiv(m2_minus_1(m), m2_plus_2(m)).im))

\* let factor = m2_minus_1 / m2_plus_2;
\* let q_sca = (8.0 / 3.0) * x.powi(4) * factor.norm_sqr();
\* let q_abs = 4.0 * x * (m2_minus_1 / m2_plus_2).im;
efficiencies(self, x, m) ==
    extinction(self, x,
               FMul(FMul(FDiv(Lit(8, 0), Lit(3, 0)), Powi4(x)),
                    norm_sqr(CDiv(m2_minus_1(m), m2_plus_2(m)))),
               FMul(FMul(Lit(4, 0), x), CDiv(m2_minus_1(m), m2_plus_2(m)).im))

rayleigh_approximation(self) ==
    efficiencies(self, size_parameter(self), relative_index(self))

\* validate without its third check.
validate_without_medium(self) ==
    IF FLe(self.radius, Zero)
    THEN Err(InvalidParameter("Radius must be positive"))
    ELSE IF FLe(self.wavelength, Zero)
    THEN Err(InvalidParameter("Wavelength must be positive"))
    ELSE Ok(<<>>)

\* validate with the wavelength checked before the radius.
validate_wavelength_first(self) ==
    IF FLe(self.wavelength, Zero)
    THEN Err(InvalidParameter("Wavelength must be positive"))
    ELSE IF FLe(self.radius, Zero)
    THEN Err(InvalidParameter("Radius must be positive"))
    ELSE IF FLe(self.n_medium, Zero)
    THEN Err(InvalidParameter("Medium refractive index must be positive"))
    ELSE Ok(<<>>)

validate(self) ==
    IF FLe(self.radius, Zero)
    THEN Err(InvalidParameter("Radius must be positive"))
    ELSE IF FLe(self.wavelength, Zero)
    THEN Err(InvalidParameter("Wavelength must be positive"))
    ELSE IF FLe(self.n_medium, Zero)
    THEN Err(InvalidParameter("Medium refractive index must be positive"))
    ELSE Ok(<<>>)

\* is_applicable that never consults validate.
is_applicable_always(self) == TRUE

\* PhysicsModel::is_applicable, which MieModel does not override.
is_applicable(self) == validate(self).ok

\* PhysicsModel::warnings as the trait provides it, for a model that does not
\* override it.
PhysicsModel_warnings(self) == <<>>

\* Parallelizable::can_parallelize as the trait provides it.
can_parallelize(self) == TRUE

\* A chunk size of one point.
recommended_chunk_size_one(self) == 1

\* Parallelizable::recommended_chunk_size as the trait provides it.
recommended_chunk_size(self) == 100

\* The one advisory string; the digits of x formatted into it are left out.
SizeWarning == "Size parameter x > 1. Rayleigh approximation may be inaccurate. Full Mie theory recommended."

\* warnings with x >= 1 for x > 1.
warnings_at_one(self) ==
    IF FGe(size_parameter(self), Lit(1, 0))
    THEN <<SizeWarning>>
    ELSE <<>>

\* if x > 1.0 { warnings.push(..) }
warned(x) == IF FGt(x, Lit(1, 0)) THEN <<SizeWarning>> ELSE <<>>

warnings(self) == warned(size_parameter(self))

\* OpticalResult::check_conservation
check_conservation(r) == FAbs(FSub(r.q_ext, FAdd(r.q_sca, r.q_abs)))

\* calculate reporting a failed validation as InvalidInput.
calculate_invalid_input(self) ==
    IF ~validate(self).ok
    THEN Err([variant |-> "InvalidInput", reason |-> validate(self).err.reason])
    ELSE Ok(rayleigh_approximation(self))

\* calculate refusing a model that has warnings.
calculate_blocked_by_warnings(self) ==
    IF ~validate(self).ok
    THEN Err(FromValidation(validate(self).err))
    ELSE IF warnings(self) # <<>>
    THEN Err([variant |-> "ModelNotApplicable", reason |-> warnings(self)[1]])
    ELSE Ok(rayleigh_approximation(self))

calculate(self) ==
    IF ~validate(self).ok
    THEN Err(FromValidation(validate(self).err))
    ELSE Ok(rayleigh_approximation(self))

\* impl Clone for MieModel
clone(self) ==
    MieModel(self.radius, self.wavelength, self.n_particle, self.n_medium)

\* The closure without the substitution of the wavelength.
point_without_substitution(self, wl) == calculate(clone(self))

\* The closure of calculate_spectrum: one point, on a clone of the model.
point(self, wl) == calculate([clone(self) EXCEPT !.wavelength = wl])

\* Iterator::collect into Result<Vec<_>, _>, on the points lo..hi: the closure
\* is called on the points in order and the first Err stops the iteration.
\* evaluated is the index of the last point the closure was called on.  The
\* range is walked first half, then second half, which keeps the order and
\* a shallow evaluation for a long spectrum.
RECURSIVE collect(_, _, _, _)

\* A collect that skips the failing points.
RECURSIVE collect_skipping(_, _, _, _)

\* The items pushed so far, followed by the outcome of the rest.
extended(done, rest) ==
    IF rest.out.ok
    THEN [out |-> Ok(done.out.val \o rest.out.val), evaluated |-> rest.evaluated]
    ELSE rest

skipped(r, i) ==
    [out |-> Ok(IF r.ok THEN <<r.val>> ELSE <<>>), evaluated |-> i]

collect_skipping(self, wavelengths, lo, hi) ==
    IF lo > hi THEN [out |-> Ok(<<>>), evaluated |-> hi]
    ELSE IF lo = hi THEN skipped(point(self, wavelengths[lo]), lo)
    ELSE extended(collect_skipping(self, wavelengths, lo, (lo + hi) \div 2),
                  collect_skipping(self, wavelengths, ((lo + hi) \div 2) + 1, hi))

\* One item r of the iterator, the i-th: pushed, or returned as the error.
collected(r, i) ==
    IF r.ok
    THEN [out |-> Ok(<<r.val>>), evaluated |-> i]
    ELSE [out |-> Err(r.err), evaluated |-> i]

\* The iteration goes on with the points lo..hi only if no item so far was
\* an Err.
continued(done, self, wavelengths, lo, hi) ==
    IF done.out.ok
    THEN extended(done, collect(self, wavelengths, lo, hi))
    ELSE done

collect(self, wavelengths, lo, hi) ==
    IF lo > hi THEN [out |-> Ok(<<>>), evaluated |-> hi]
    ELSE IF lo = hi THEN collected(point(self, wavelengths[lo]), lo)
    ELSE continued(collect(self, wavelengths, lo, (lo + hi) \div 2),
                   self, wavelengths, ((lo + hi) \div 2) + 1, hi)

spectrum_run(self, wavelengths) == collect(self, wavelengths, 1, Len(wavelengths))

calculate_spectrum(self, wavelengths) == spectrum_run(self, wavelengths).out

\* ----------------------------------------------------------------- inputs

\* 2*PI*10: the wavelength at which a radius of 10 has x = 1 exactly.
TwoPiTen == FMul(FMul(Lit(2, 0), PI), Lit(10, 0))

\* radius: NaN, negative, zero, small, the radius of test_size_parameter,
\* x > 1 at 500 nm, beyond the UI range, and the largest finite value.
RadiusInputs ==
    {NaN, Lit(0 - 1, 0), Zero, Lit(10, 0), Lit(50, 0), Lit(200, 0),
     Lit(5000, 0), MaxFinite}

\* wavelength: zero, the wavelength at which radius 10 gives x = 1, and 500.
WavelengthInputs == {Zero, TwoPiTen, Lit(500, 0)}

\* particle index (n, k): Au-like, lossless, negative real part, negative k.
ParticleInputs ==
    {RefractiveIndex(Lit(5, 0 - 1), Lit(25, 0 - 1)),
     RefractiveIndex(Lit(15, 0 - 1), Zero),
     RefractiveIndex(Lit(0 - 1, 0), Lit(25, 0 - 1)),
     RefractiveIndex(Lit(15, 0 - 1), Lit(0 - 1, 0))}

\* medium index: negative, zero, below the UI range, water.
MediumInputs == {Lit(0 - 1, 0), Zero, Lit(1, 0 - 1), Lit(133, 0 - 2)}

\* the wavelengths a spectrum is asked at: an invalid one and two valid ones.
SpectrumInputs == {Zero, Lit(300, 0), Lit(500, 0)}

RECURSIVE SeqsUpTo(_, _)
SeqsUpTo(S, n) ==
    IF n = 0 THEN {<<>>}
    ELSE LET shorter == SeqsUpTo(S, n - 1)
         IN  shorter \cup {Append(s, v) : s \in {t \in shorter : Len(t) = n - 1}, v \in S}

\* ----------------------------------------------------------- presentation

\* Option::None
None == <<>>

\* AppState::default
AppState_default ==
    [particle_radius |-> Lit(50, 0),
     wavelength      |-> Lit(500, 0),
     n_particle_real |-> Lit(5, 0 - 1),
     n_particle_imag |-> Lit(25, 0 - 1),
     n_medium        |-> Lit(133, 0 - 2)]

MaterialPreset(name, n_real, n_imag) ==
    [name |-> name, n_real |-> n_real, n_imag |-> n_imag]

MATERIAL_PRESETS ==
    << MaterialPreset("Gold (Au)", Lit(47, 0 - 2), Lit(240, 0 - 2)),
       MaterialPreset("Silver (Ag)", Lit(5, 0 - 2), Lit(300, 0 - 2)),
       MaterialPreset("Silicon (Si)", Lit(415, 0 - 2), Lit(4, 0 - 2)),
       MaterialPreset("TiO2", Lit(250, 0 - 2), Zero) >>

\* The match of get_element_properties: (n_real, n_imag) by symbol.
element_index(symbol) ==
    CASE symbol = "Au" -> <<Lit(47, 0 - 2), Lit(240, 0 - 2)>>
      [] symbol = "Ag" -> <<Lit(5, 0 - 2), Lit(300, 0 - 2)>>
      [] symbol = "Cu" -> <<Lit(94, 0 - 2), Lit(243, 0 - 2)>>
      [] symbol = "Al" -> <<Lit(82, 0 - 2), Lit(650, 0 - 2)>>
      [] symbol = "Si" -> <<Lit(415, 0 - 2), Lit(4, 0 - 2)>>
      [] symbol = "Ti" -> <<Lit(290, 0 - 2), Lit(310, 0 - 2)>>
      [] symbol = "Fe" -> <<Lit(295, 0 - 2), Lit(350, 0 - 2)>>
      [] symbol = "Ni" -> <<Lit(240, 0 - 2), Lit(430, 0 - 2)>>
      [] symbol = "Pt" -> <<Lit(237, 0 - 2), Lit(426, 0 - 2)>>
      [] symbol = "Pd" -> <<Lit(180, 0 - 2), Lit(440, 0 - 2)>>
      [] symbol = "Cr" -> <<Lit(310, 0 - 2), Lit(330, 0 - 2)>>
      [] symbol = "Zn" -> <<Lit(170, 0 - 2), Lit(500, 0 - 2)>>
      [] symbol = "C"  -> <<Lit(240, 0 - 2), Lit(140, 0 - 2)>>
      [] OTHER         -> <<Lit(150, 0 - 2), Zero>>

get_element_properties(symbol, name, atomic_number) ==
    [symbol |-> symbol, name |-> name, atomic_number |-> atomic_number,
     n_real |-> element_index(symbol)[1], n_imag |-> element_index(symbol)[2]]

\* The cells of the periodic table drawn by draw_periodic_table; every empty
\* cell is the same triple.
elements ==
    { <<"", 0, "">>,
      <<"H", 1, "Hydrogen">>, <<"He", 2, "Helium">>,
      <<"Li", 3, "Lithium">>, <<"Be", 4, "Beryllium">>, <<"B", 5, "Boron">>,
      <<"C", 6, "Carbon">>, <<"N", 7, "Nitrogen">>, <<"O", 8, "Oxygen">>,
      <<"F", 9, "Fluorine">>, <<"Ne", 10, "Neon">>,
      <<"Na", 11, "Sodium">>, <<"Mg", 12, "Magnesium">>,
      <<"Al", 13, "Aluminum">>, <<"Si", 14, "Silicon">>,
      <<"P", 15, "Phosphorus">>, <<"S", 16, "Sulfur">>,
      <<"Cl", 17, "Chlorine">>, <<"Ar", 18, "Argon">>,
      <<"K", 19, "Potassium">>, <<"Ca", 20, "Calcium">>,
      <<"Sc", 21, "Scandium">>, <<"Ti", 22, "Titanium">>,
      <<"V", 23, "Vanadium">>, <<"Cr", 24, "Chromium">>,
      <<"Mn", 25, "Manganese">>, <<"Fe", 26, "Iron">>,
      <<"Co", 27, "Cobalt">>, <<"Ni", 28, "Nickel">>,
      <<"Cu", 29, "Copper">>, <<"Zn", 30, "Zinc">>,
      <<"Ga", 31, "Gallium">>, <<"Ge", 32, "Germanium">>,
      <<"As", 33, "Arsenic">>, <<"Se", 34, "Selenium">>,
      <<"Br", 35, "Bromine">>, <<"Kr", 36, "Krypton">>,
      <<"Rb", 37, "Rubidium">>, <<"Sr", 38, "Strontium">>,
      <<"Y", 39, "Yttrium">>, <<"Zr", 40, "Zirconium">>,
      <<"Nb", 41, "Niobium">>, <<"Mo", 42, "Molybdenum">>,
      <<"Tc", 43, "Technetium">>, <<"Ru", 44, "Ruthenium">>,
      <<"Rh", 45, "Rhodium">>, <<"Pd", 46, "Palladium">>,
      <<"Ag", 47, "Silver">>, <<"Cd", 48, "Cadmium">>,
      <<"In", 49, "Indium">>, <<"Sn", 50, "Tin">>,
      <<"Sb", 51, "Antimony">>, <<"Te", 52, "Tellurium">>,
      <<"I", 53, "Iodine">>, <<"Xe", 54, "Xenon">>,
      <<"Cs", 55, "Cesium">>, <<"Ba", 56, "Barium">>,
      <<"La", 57, "Lanthanum">>, <<"Hf", 72, "Hafnium">>,
      <<"Ta", 73, "Tantalum">>, <<"W", 74, "Tungsten">>,
      <<"Re", 75, "Rhenium">>, <<"Os", 76, "Osmium">>,
      <<"Ir", 77, "Iridium">>, <<"Pt", 78, "Platinum">>,
      <<"Au", 79, "Gold">>, <<"Hg", 80, "Mercury">>,
      <<"Tl", 81, "Thallium">>, <<"Pb", 82, "Lead">>,
      <<"Bi", 83, "Bismuth">> }

\* A DragValue without a range.
DragValue_unclamped(v, lo, hi) == {v}

\* egui::DragValue with .range(lo..=hi): the value the widget leaves in the
\* field after the user entered v. The widget clamps by total order, where a
\* NaN lies beyond one end of the range, on the side of its sign bit.
DragValue(v, lo, hi) ==
    IF IsNaN(v) THEN {lo, hi}
    ELSE IF FLe(v, lo) THEN {lo}
    ELSE IF FGe(v, hi) THEN {hi}
    ELSE {v}

\* A message text: a format string and the value it displays, if any.
message(text, arg) == [text |-> text, arg |-> arg]

\* NanoCalcApp::default
NanoCalcApp_default ==
    [state                   |-> AppState_default,
     result                  |-> None,
     spectrum_results        |-> <<>>,
     calculating             |-> FALSE,
     error_message           |-> None,
     show_periodic_table     |-> FALSE,
     show_element_properties |-> FALSE,
     selected_element        |-> None,
     language                |-> "English",
     plot_reset_counter      |-> 0,
     log_messages            |-> << [stamp |-> None,
                                     message |-> message("NanoCalc initialized", None)] >>]

tr(self, en, es) == IF self.language = "English" THEN en ELSE es

\* add_log: the entry is the message stamped with the time of day of the
\* clock reading (seconds since the epoch); the log keeps the last 100.
log_entry(timestamp, msg) ==
    [stamp   |-> Some(<< ((timestamp % 86400) \div 3600) % 24,
                         ((timestamp % 86400) \div 60) % 60,
                         (timestamp % 86400) % 60 >>),
     message |-> msg]

\* The push without the limit.
pushed_unbounded(log) == log

pushed(log) == IF Len(log) > 100 THEN Tail(log) ELSE log

add_log(self, timestamp, msg) ==
    [self EXCEPT !.log_messages = pushed(Append(@, log_entry(timestamp, msg)))]

\* The MieModel both calculation handlers build from the input fields.
model_of(state) ==
    MieModel(state.particle_radius, state.wavelength,
             RefractiveIndex(state.n_particle_real, state.n_particle_imag),
             state.n_medium)

\* format!("Calculation error: {}", e) and format!("Spectrum calculation
\* error: {}", e): the prefix and the error displayed after it.
error_msg(prefix, e) == message(prefix, Some(e))

single_done(self, r, timestamp) ==
    IF r.ok
    THEN add_log([self EXCEPT !.result = Some(r.val)], timestamp,
                 message(tr(self, "Single point calculated", "Punto unico calculado"),
                         None))
    ELSE add_log([self EXCEPT
                     !.error_message = Some(error_msg("Calculation error: ", r.err))],
                 timestamp,
                 message("failed: {}", Some(error_msg("Calculation error: ", r.err))))

\* The start of calculate_single without `self.error_message = None`.
single_started_keeping_error(self, timestamp) ==
    add_log([self EXCEPT !.calculating = TRUE],
            timestamp,
            message(tr(self, "Calculating at {} nm...", "Calculando en {} nm..."),
                    Some(self.state.wavelength)))

single_started(self, timestamp) ==
    add_log([self EXCEPT !.calculating = TRUE, !.error_message = None],
            timestamp,
            message(tr(self, "Calculating at {} nm...", "Calculando en {} nm..."),
                    Some(self.state.wavelength)))

\* NanoCalcApp::calculate_single, with the two clock readings of its add_log
\* calls.
single_finished(self, r, t1, t2) ==
    [single_done(single_started(self, t1), r, t2) EXCEPT !.calculating = FALSE]

calculate_single(self, t1, t2) ==
    single_finished(self, calculate(model_of(self.state)), t1, t2)

\* (300..=800).step_by(5).map(|w| w as f64)
spectrum_wavelengths == [i \in 1..101 |-> Lit(300 + 5 * (i - 1), 0)]

\* The end of calculate_spectrum with the results appended to the old ones.
spectrum_done_appending(self, r, timestamp) ==
    IF r.ok
    THEN add_log([self EXCEPT !.spectrum_results = @ \o r.val,
                              !.plot_reset_counter = @ + 1],
                 timestamp,
                 message(tr(self, "Spectrum calculated ({} points)",
                                 "Espectro calculado ({} puntos)"),
                         Some(Len(r.val))))
    ELSE add_log([self EXCEPT
                     !.error_message =
                         Some(error_msg("Spectrum calculation error: ", r.err))],
                 timestamp,
                 message("failed: {}",
                         Some(error_msg("Spectrum calculation error: ", r.err))))

spectrum_done(self, r, timestamp) ==
    IF r.ok
    THEN add_log([self EXCEPT !.spectrum_results = r.val,
                              !.plot_reset_counter = @ + 1],
                 timestamp,
                 message(tr(self, "Spectrum calculated ({} points)",
                                 "Espectro calculado ({} puntos)"),
                         Some(Len(r.val))))
    ELSE add_log([self EXCEPT
                     !.error_message =
                         Some(error_msg("Spectrum calculation error: ", r.err))],
                 timestamp,
                 message("failed: {}",
                         Some(error_msg("Spectrum calculation error: ", r.err))))

spectrum_started(self, timestamp) ==
    add_log([self EXCEPT !.calculating = TRUE, !.error_message = None],
            timestamp,
            message(tr(self, "Calculating full spectrum (300-800 nm)...",
                            "Calculando espectro completo (300-800 nm)..."),
                    None))

\* NanoCalcApp::calculate_spectrum
spectrum_finished(self, r, t1, t2) ==
    [spectrum_done(spectrum_started(self, t1), r, t2) EXCEPT !.calculating = FALSE]

NanoCalcApp_calculate_spectrum(self, t1, t2) ==
    spectrum_finished(self,
                      calculate_spectrum(model_of(self.state), spectrum_wavelengths),
                      t1, t2)

\* perform_export, for the three export types: nothing without a spectrum;
\* otherwise one entry when the export starts and one for its outcome, which
\* is that of File::create. A build without the plotters feature logs one
\* entry for PNG.
export_outcome(self, export_type, created) ==
    IF created THEN message("{}: {}", Some(export_type))
    ELSE message(tr(self, "Error exporting {}", "Error exportando {}"),
                 Some(export_type))

perform_export(self, export_type, outcome, t1, t2) ==
    IF self.spectrum_results = <<>> THEN self
    ELSE IF outcome = "unsupported"
    THEN add_log(self, t1,
                 message(tr(self, "PNG export requires plotters crate",
                                  "Exportar PNG requiere crate plotters"), None))
    ELSE add_log(add_log(self, t1,
                         message(tr(self, "Exporting {}...", "Exportando {}..."),
                                 Some(export_type))),
                 t2, export_outcome(self, export_type, outcome = "created"))

\* "Clear Log": log_messages.clear(), then one entry pushed without a stamp.
clear_log(self) ==
    [self EXCEPT !.log_messages =
        << [stamp |-> None,
            message |-> message(tr(self, "Log cleared", "Log limpiado"), None)] >>]

\* What the user can enter in a field, and what the clock can read.
DragInputs == {NaN, Lit(0 - 50, 0), Lit(5000, 0)}

ElementInputs ==
    {c \in elements : c[1] \in {"", "Au", "Al", "He"}}

ClockInputs == {3661, 90061}

\* ------------------------------------------------------------------ state

VARIABLES
    model,      \* the MieModel the caller constructed
    last,       \* the call in progress: the operation, its argument, its return value
    prev,       \* a returned call the caller kept, to compare a retry with
    job,        \* sharded spectrum: the wavelength sequence being evaluated
    worker,     \* sharded spectrum: each worker's position and the point it holds
    cell,       \* sharded spectrum: the clone each closure invocation works on
    slot,       \* sharded spectrum: the outcome of each point, by input index
    assembled,  \* sharded spectrum: the outcome put back in input order
    app,        \* the NanoCalcApp the window shows
    frame       \* the number of frames NanoCalcApp::update has drawn

vars == <<model, last, prev, job, worker, cell, slot, assembled, app, frame>>

gui_vars == <<app, frame>>

shard_vars == <<job, worker, cell, slot, assembled>>

Workers == 1..NumWorkers

NoCall == [op |-> "new", wavelengths |-> <<>>, out |-> <<>>, evaluated |-> 0]

Idle == [pc |-> "idle", i |-> 0]

NoModel == [radius |-> Zero, wavelength |-> Zero,
            n_particle |-> RefractiveIndex(Zero, Zero), n_medium |-> Zero]

NotAssembled == [done |-> FALSE, out |-> <<>>]

\* MieModel::new with any f64 arguments.
Init ==
    /\ \E r \in RadiusInputs, w \in WavelengthInputs, np \in ParticleInputs,
          nm \in MediumInputs :
          model = MieModel(r, w, np, nm)
    /\ last = NoCall
    /\ prev = NoCall
    /\ job = <<>>
    /\ worker = [w \in Workers |-> Idle]
    /\ cell = [w \in Workers |-> NoModel]
    /\ slot = <<>>
    /\ assembled = NotAssembled
    /\ app = NanoCalcApp_default
    /\ frame = 0

Validate ==
    /\ last.op = "new"
    /\ last' = [op |-> "validate", wavelengths |-> <<>>,
                out |-> validate(model), evaluated |-> 0]
    /\ UNCHANGED <<model, prev, shard_vars, gui_vars>>

\* model.size_parameter(), as tests::test_size_parameter calls it.
SizeParameter ==
    /\ last.op = "new"
    /\ last' = [op |-> "size_parameter", wavelengths |-> <<>>,
                out |-> size_parameter(model), evaluated |-> 0]
    /\ UNCHANGED <<model, prev, shard_vars, gui_vars>>

IsApplicable ==
    /\ last.op = "new"
    /\ last' = [op |-> "is_applicable", wavelengths |-> <<>>,
                out |-> is_applicable(model), evaluated |-> 0]
    /\ UNCHANGED <<model, prev, shard_vars, gui_vars>>

Warnings ==
    /\ last.op = "new"
    /\ last' = [op |-> "warnings", wavelengths |-> <<>>,
                out |-> warnings(model), evaluated |-> 0]
    /\ UNCHANGED <<model, prev, shard_vars, gui_vars>>

Calculate ==
    /\ last.op = "new"
    /\ last' = [op |-> "calculate", wavelengths |-> <<>>,
                out |-> calculate(model), evaluated |-> 0]
    /\ UNCHANGED <<model, prev, shard_vars, gui_vars>>

\* The record of a calculate_spectrum call from its run.
SpectrumCall(wls, run) ==
    [op |-> "calculate_spectrum", wavelengths |-> wls,
     out |-> run.out, evaluated |-> run.evaluated]

\* calculate_spectrum substituting each wavelength in the receiver itself.
CalculateSpectrum_in_place ==
    /\ last.op = "new"
    /\ \E wls \in SeqsUpTo(SpectrumInputs, MaxLen) :
          /\ last' = SpectrumCall(wls, spectrum_run(model, wls))
          /\ model' = IF wls = <<>> THEN model
                      ELSE [model EXCEPT !.wavelength = wls[Len(wls)]]
    /\ UNCHANGED <<prev, shard_vars, gui_vars>>

CalculateSpectrum ==
    /\ last.op = "new"
    /\ \E wls \in SeqsUpTo(SpectrumInputs, MaxLen) :
          last' = SpectrumCall(wls, spectrum_run(model, wls))
    /\ UNCHANGED <<model, prev, shard_vars, gui_vars>>

\* The caller is done with the returned value; the model is ready for the
\* next call.
Return ==
    /\ last.op # "new"
    /\ last' = NoCall
    /\ UNCHANGED <<model, prev, shard_vars, gui_vars>>

Next ==
    \/ Validate
    \/ SizeParameter
    \/ IsApplicable
    \/ Warnings
    \/ Calculate
    \/ CalculateSpectrum
    \/ Return

Spec == Init /\ [][Next]_vars

\* ------------------------------------------------------------------ retries
\* A caller that keeps a value calculate() or calculate_spectrum() returned
\* and calls again on the same model, after any other calls.

\* The models a call is retried on: every kind of failure and success.
FewModels ==
    {MieModel(r, w, RefractiveIndex(Lit(5, 0 - 1), Lit(25, 0 - 1)), nm) :
        r \in {Zero, Lit(10, 0)}, w \in {Zero, Lit(500, 0)},
        nm \in {Zero, Lit(133, 0 - 2)}}

InitRetry ==
    /\ model \in FewModels
    /\ last = NoCall
    /\ prev = NoCall
    /\ job = <<>>
    /\ worker = [w \in Workers |-> Idle]
    /\ cell = [w \in Workers |-> NoModel]
    /\ slot = <<>>
    /\ assembled = NotAssembled
    /\ app = NanoCalcApp_default
    /\ frame = 0

\* The call returns and the caller, who owns the returned Result, keeps it.
Keep ==
    /\ last.op \in {"calculate", "calculate_spectrum"}
    /\ prev' = last
    /\ last' = NoCall
    /\ UNCHANGED <<model, shard_vars, gui_vars>>

NextRetry == Next \/ Keep

SpecRetry == InitRetry /\ [][NextRetry]_vars

\* ------------------------------------------------------- sharded spectrum
\* The points of calculate_spectrum handed to NumWorkers workers, as the
\* Parallelizable marker allows a caller to do: a worker takes any point
\* not yet taken and runs the closure of calculate_spectrum on it, one
\* statement at a time, interleaved with the other workers; the outcomes
\* are stored by input index and collected in input order.

InitShard ==
    /\ model \in FewModels
    /\ last = NoCall
    /\ prev = NoCall
    /\ job \in SeqsUpTo(SpectrumInputs, MaxLen)
    /\ worker = [w \in Workers |-> Idle]
    /\ cell = [w \in Workers |-> NoModel]
    /\ slot = [i \in 1..Len(job) |-> [st |-> "todo", out |-> <<>>, by |-> 0, nth |-> 0]]
    /\ assembled = NotAssembled
    /\ app = NanoCalcApp_default
    /\ frame = 0

\* The clone a closure invocation creates is its own: worker w's is cell w.
CloneCell_shared(w) == 1

CloneCell(w) == w

\* let mut model = self.clone();
Take(w) ==
    /\ worker[w].pc = "idle"
    /\ \E i \in 1..Len(job) :
          /\ slot[i].st = "todo"
          /\ slot' = [slot EXCEPT ![i].st = "taken"]
          /\ worker' = [worker EXCEPT ![w] = [pc |-> "cloned", i |-> i]]
    /\ cell' = [cell EXCEPT ![CloneCell(w)] = clone(model)]
    /\ UNCHANGED <<gui_vars, model, last, prev, job, assembled>>

\* model.wavelength = wl;
Substitute(w) ==
    /\ worker[w].pc = "cloned"
    /\ cell' = [cell EXCEPT ![CloneCell(w)].wavelength = job[worker[w].i]]
    /\ worker' = [worker EXCEPT ![w].pc = "substituted"]
    /\ UNCHANGED <<gui_vars, model, last, prev, job, slot, assembled>>

\* The number of points that are finished.
Finished == Cardinality({i \in 1..Len(job) : slot[i].st = "done"})

\* model.calculate(): the outcome is stored at the point's input index, with
\* the worker that computed it and its position in the order of completion.
Compute(w) ==
    /\ worker[w].pc = "substituted"
    /\ slot' = [slot EXCEPT ![worker[w].i] =
                    [st |-> "done", out |-> calculate(cell[CloneCell(w)]),
                     by |-> w, nth |-> 1 + Finished]]
    /\ worker' = [worker EXCEPT ![w] = Idle]
    /\ UNCHANGED <<gui_vars, model, last, prev, job, cell, assembled>>

\* collect() over the outcomes in input order: the first Err, or every value.
RECURSIVE InOrder(_, _, _)
InOrder(outs, i, acc) ==
    IF i > Len(outs) THEN Ok(acc)
    ELSE IF outs[i].ok THEN InOrder(outs, i + 1, Append(acc, outs[i].val))
    ELSE Err(outs[i].err)

Assemble ==
    /\ ~assembled.done
    /\ \A i \in 1..Len(job) : slot[i].st = "done"
    /\ assembled' = [done |-> TRUE,
                     out |-> InOrder([i \in 1..Len(job) |-> slot[i].out], 1, <<>>)]
    /\ UNCHANGED <<gui_vars, model, last, prev, job, worker, cell, slot>>

NextShard ==
    \/ \E w \in Workers : Take(w) \/ Substitute(w) \/ Compute(w)
    \/ Assemble

SpecShard == InitShard /\ [][NextShard]_vars

\* ------------------------------------------------------ provided methods
\* A type T that holds the parameters of a model and implements the traits
\* with empty bodies: impl Parallelizable for T {} and an impl PhysicsModel
\* for T that leaves warnings() out. The calls are made on any value of T.

DefaultWarnings ==
    /\ last.op = "new"
    /\ last' = [op |-> "PhysicsModel::warnings", wavelengths |-> <<>>,
                out |-> PhysicsModel_warnings(model), evaluated |-> 0]
    /\ UNCHANGED <<model, prev, shard_vars, gui_vars>>

CanParallelize ==
    /\ last.op = "new"
    /\ last' = [op |-> "can_parallelize", wavelengths |-> <<>>,
                out |-> can_parallelize(model), evaluated |-> 0]
    /\ UNCHANGED <<model, prev, shard_vars, gui_vars>>

RecommendedChunkSize ==
    /\ last.op = "new"
    /\ last' = [op |-> "recommended_chunk_size", wavelengths |-> <<>>,
                out |-> recommended_chunk_size(model), evaluated |-> 0]
    /\ UNCHANGED <<model, prev, shard_vars, gui_vars>>

NextProvided ==
    \/ DefaultWarnings
    \/ CanParallelize
    \/ RecommendedChunkSize
    \/ Return

SpecProvided == Init /\ [][NextProvided]_vars

\* --------------------------------------------------- core: pure functions
\* The conversions of core::types::units, called on any f64 wrapped in the
\* unit type, and OpticalResult::check_conservation, called on any struct
\* literal (the fields are pub). The argument is kept in the call, in the
\* field a spectrum call keeps its wavelengths in.

UnitInputs ==
    RadiusInputs \cup WavelengthInputs
        \cup {Lit(n, e) : n \in {1, 3, 5, 273}, e \in {0 - 9, 0 - 2, 0, 2, 9}}

InitCore ==
    /\ model = NoModel
    /\ last = NoCall
    /\ prev = NoCall
    /\ job = <<>>
    /\ worker = [w \in Workers |-> Idle]
    /\ cell = [w \in Workers |-> NoModel]
    /\ slot = <<>>
    /\ assembled = NotAssembled
    /\ app = NanoCalcApp_default
    /\ frame = 0

ToMeters ==
    /\ last.op = "new"
    /\ \E v \in UnitInputs :
          last' = [op |-> "to_meters", wavelengths |-> <<v>>,
                   out |-> to_meters(v), evaluated |-> 0]
    /\ UNCHANGED <<model, prev, shard_vars, gui_vars>>

ToEnergyEv ==
    /\ last.op = "new"
    /\ \E v \in UnitInputs :
          last' = [op |-> "to_energy_ev", wavelengths |-> <<v>>,
                   out |-> to_energy_ev(v), evaluated |-> 0]
    /\ UNCHANGED <<model, prev, shard_vars, gui_vars>>

ToFrequencyHz ==
    /\ last.op = "new"
    /\ \E v \in UnitInputs :
          last' = [op |-> "to_frequency_hz", wavelengths |-> <<v>>,
                   out |-> to_frequency_hz(v), evaluated |-> 0]
    /\ UNCHANGED <<model, prev, shard_vars, gui_vars>>

ToCelsius ==
    /\ last.op = "new"
    /\ \E v \in UnitInputs :
          last' = [op |-> "to_celsius", wavelengths |-> <<v>>,
                   out |-> to_celsius(v), evaluated |-> 0]
    /\ UNCHANGED <<model, prev, shard_vars, gui_vars>>

\* An OpticalResult written as a struct literal: the fields of the test of
\* core::traits with the given efficiencies.
OpticalResult(q_sca, q_abs, q_ext) ==
    [wavelength |-> Lit(500, 0),
     q_sca |-> q_sca,
     q_abs |-> q_abs,
     q_ext |-> q_ext,
     c_sca |-> Lit(100, 0),
     c_abs |-> Lit(3333, 0 - 2),
     c_ext |-> Lit(13333, 0 - 2),
     metadata |-> [num_terms |-> None,
                   converged |-> FALSE,
                   size_parameter |-> Zero,
                   notes |-> <<>>]]

EfficiencyInputs ==
    {NaN, PInf, MaxFinite, Zero, Lit(0 - 48, 0 - 2), Lit(5, 0 - 1),
     Lit(15, 0 - 1), Lit(2, 0)}

CheckConservation ==
    /\ last.op = "new"
    /\ \E q_sca \in EfficiencyInputs, q_abs \in EfficiencyInputs,
          q_ext \in EfficiencyInputs :
          last' = [op |-> "check_conservation",
                   wavelengths |-> <<OpticalResult(q_sca, q_abs, q_ext)>>,
                   out |-> check_conservation(OpticalResult(q_sca, q_abs, q_ext)),
                   evaluated |-> 0]
    /\ UNCHANGED <<model, prev, shard_vars, gui_vars>>

NextCore ==
    \/ CheckConservation
    \/ ToMeters
    \/ ToEnergyEv
    \/ ToFrequencyHz
    \/ ToCelsius
    \/ Return

SpecCore == InitCore /\ [][NextCore]_vars

\* ------------------------------------------------------ presentation layer
\* NanoCalcApp::update runs once per frame; in a frame the user does one thing
\* to one widget. The specification follows the first MaxFrames frames after
\* start-up.

InitGui ==
    /\ model = NoModel
    /\ last = NoCall
    /\ prev = NoCall
    /\ job = <<>>
    /\ worker = [w \in Workers |-> Idle]
    /\ cell = [w \in Workers |-> NoModel]
    /\ slot = <<>>
    /\ assembled = NotAssembled
    /\ app = NanoCalcApp_default
    /\ frame = 0

Frame(next) ==
    /\ app' = next
    /\ frame' = frame + 1
    /\ UNCHANGED <<model, last, prev, shard_vars>>

\* DragValue::new(&mut self.state.particle_radius).range(1.0..=1000.0)
EditRadius ==
    /\ frame < MaxFrames
    /\ \E v \in DragInputs :
        \E nv \in DragValue(v, Lit(1, 0), Lit(1000, 0)) :
            Frame([app EXCEPT !.state.particle_radius = nv])

\* DragValue::new(&mut self.state.n_particle_real).range(-10.0..=10.0)
EditIndexReal ==
    /\ frame < MaxFrames
    /\ \E v \in DragInputs :
        \E nv \in DragValue(v, Lit(0 - 10, 0), Lit(10, 0)) :
            Frame([app EXCEPT !.state.n_particle_real = nv])

\* DragValue::new(&mut self.state.n_particle_imag).range(0.0..=10.0)
EditIndexImag ==
    /\ frame < MaxFrames
    /\ \E v \in DragInputs :
        \E nv \in DragValue(v, Zero, Lit(10, 0)) :
            Frame([app EXCEPT !.state.n_particle_imag = nv])

\* DragValue::new(&mut self.state.wavelength).range(200.0..=2000.0)
EditWavelength ==
    /\ frame < MaxFrames
    /\ \E v \in DragInputs :
        \E nv \in DragValue(v, Lit(200, 0), Lit(2000, 0)) :
            Frame([app EXCEPT !.state.wavelength = nv])

\* DragValue::new(&mut self.state.n_medium).range(1.0..=3.0)
EditMedium ==
    /\ frame < MaxFrames
    /\ \E v \in DragInputs :
        \E nv \in DragValue(v, Lit(1, 0), Lit(3, 0)) :
            Frame([app EXCEPT !.state.n_medium = nv])

apply_material_preset(self, preset) ==
    [self EXCEPT !.state.n_particle_real = preset.n_real,
                 !.state.n_particle_imag = preset.n_imag]

ApplyPreset ==
    /\ frame < MaxFrames
    /\ \E i \in DOMAIN MATERIAL_PRESETS :
        Frame(apply_material_preset(app, MATERIAL_PRESETS[i]))

\* "Select from Periodic Table"
OpenPeriodicTable ==
    /\ frame < MaxFrames
    /\ Frame([app EXCEPT !.show_periodic_table = TRUE])

\* draw_periodic_table: "Close"
ClosePeriodicTable ==
    /\ frame < MaxFrames
    /\ app.show_periodic_table
    /\ Frame([app EXCEPT !.show_periodic_table = FALSE])

\* The element button without the assignment to selected_element.
ChooseElement_without_selection ==
    /\ frame < MaxFrames
    /\ app.show_periodic_table
    /\ Frame([app EXCEPT !.show_element_properties = TRUE,
                         !.show_periodic_table = FALSE])

\* draw_periodic_table: an element button
ChooseElement ==
    /\ frame < MaxFrames
    /\ app.show_periodic_table
    /\ \E c \in ElementInputs :
        /\ c[1] # ""
        /\ c[2] > 0
        /\ Frame([app EXCEPT
                    !.selected_element = Some(get_element_properties(c[1], c[3], c[2])),
                    !.show_element_properties = TRUE,
                    !.show_periodic_table = FALSE])

\* draw_element_properties: "Apply Properties"
ApplyElement ==
    /\ frame < MaxFrames
    /\ app.show_element_properties
    /\ app.selected_element # None
    /\ Frame([app EXCEPT
                !.state.n_particle_real = app.selected_element[1].n_real,
                !.state.n_particle_imag = app.selected_element[1].n_imag,
                !.show_element_properties = FALSE])

\* draw_element_properties: "Cancel"
CancelElement ==
    /\ frame < MaxFrames
    /\ app.show_element_properties
    /\ app.selected_element # None
    /\ Frame([app EXCEPT !.show_element_properties = FALSE])

\* "Calculate Single Point"
CalculateSingle ==
    /\ frame < MaxFrames
    /\ \E next \in {calculate_single(app, t1, t2) : t1 \in ClockInputs, t2 \in ClockInputs} :
        Frame(next)

\* "Calculate Full Spectrum"
CalculateFullSpectrum ==
    /\ frame < MaxFrames
    /\ \E r \in {calculate_spectrum(model_of(app.state), spectrum_wavelengths)} :
        \E next \in {spectrum_finished(app, r, t1, t2) :
                         t1 \in ClockInputs, t2 \in ClockInputs} :
            Frame(next)

NextGui ==
    \/ EditRadius
    \/ EditIndexReal
    \/ EditIndexImag
    \/ EditWavelength
    \/ EditMedium
    \/ ApplyPreset
    \/ OpenPeriodicTable
    \/ ClosePeriodicTable
    \/ ChooseElement
    \/ ApplyElement
    \/ CancelElement
    \/ CalculateSingle
    \/ CalculateFullSpectrum

SpecGui == InitGui /\ [][NextGui]_vars

\* ---------------------------------------------------------------- handlers
\* The handlers of NanoCalcApp on the window in a later part of a session:
\* with results or an error message left by earlier calculations, with a log
\* that has grown to its limit, and with input fields holding values on which
\* the calculation fails (the handlers read the fields as they are). The
\* specification follows MaxCalls handler calls from each such window.

\* The window after a single-point and a spectrum calculation on the default
\* inputs.
Calculated ==
    NanoCalcApp_calculate_spectrum(calculate_single(NanoCalcApp_default, 3661, 3661),
                                   3662, 3662)

\* The window after a single-point calculation that failed on a radius of 0.
Failed ==
    calculate_single([NanoCalcApp_default EXCEPT !.state.particle_radius = Zero],
                     3661, 3661)

\* A log of n entries, one per second.
LongLog(n) == [i \in 1..n |-> log_entry(i, message("Single point calculated", None))]

HandlerApps ==
    {NanoCalcApp_default,
     Failed,
     [Failed EXCEPT !.state = AppState_default],
     [Calculated EXCEPT !.state.particle_radius = Zero],
     [Calculated EXCEPT !.state.n_medium = Lit(0 - 1, 0), !.log_messages = LongLog(99)],
     [Calculated EXCEPT !.state.particle_radius = Zero, !.log_messages = LongLog(100)]}

InitHandlers ==
    /\ model = NoModel
    /\ last = NoCall
    /\ prev = NoCall
    /\ job = <<>>
    /\ worker = [w \in Workers |-> Idle]
    /\ cell = [w \in Workers |-> NoModel]
    /\ slot = <<>>
    /\ assembled = NotAssembled
    /\ app \in HandlerApps
    /\ frame = 0

ExportInputs ==
    {<<"CSV", "created">>, <<"CSV", "failed">>, <<"JSON", "created">>,
     <<"PNG", "created">>, <<"PNG", "unsupported">>}

\* draw_export_dialog: "Export"
Export ==
    /\ frame < MaxFrames
    /\ \E x \in ExportInputs, t \in ClockInputs :
          Frame(perform_export(app, x[1], x[2], t, t))

\* "Clear Log"
ClearLog ==
    /\ frame < MaxFrames
    /\ Frame(clear_log(app))

NextHandlers ==
    /\ frame < MaxCalls
    /\ \/ CalculateSingle
       \/ CalculateFullSpectrum
       \/ Export
       \/ ClearLog

SpecHandlers == InitHandlers /\ [][NextHandlers]_vars

\* ------------------------------------------------------------------ claims

Positive(a) == FGt(a, Zero)

NonPositive(a) == FLe(a, Zero)

\* The tolerance 1e-10 of the conservation check.
Tolerance == Lit(1, 0 - 10)

\* C1: a model with radius <= 0, wavelength <= 0 or medium index <= 0 gets
\* InvalidParameter from validate(), and calculate() on it returns that
\* validation error and no result.
C1_NonPositiveRejected ==
    (NonPositive(model.radius) \/ NonPositive(model.wavelength)
        \/ NonPositive(model.n_medium)) =>
        /\ last.op = "validate" =>
              /\ ~last.out.ok
              /\ last.out.err.variant = "InvalidParameter"
        /\ last.op = "calculate" =>
              /\ ~last.out.ok
              /\ DOMAIN last.out = {"ok", "err"}
              /\ last.out.err.variant = "Validation"
              /\ last.out.err.source.variant = "InvalidParameter"

\* C1 witness: calculate() was called on a model whose only non-positive
\* parameter is the medium index, and returned an error.
C1_Witness ==
    /\ last.op = "calculate"
    /\ Positive(model.radius)
    /\ Positive(model.wavelength)
    /\ NonPositive(model.n_medium)
    /\ ~last.out.ok

\* C2: validate() succeeds exactly when radius > 0, wavelength > 0 and
\* medium index > 0, so every accepted model has all three strictly positive.
C2_ValidateIffPositive ==
    last.op = "validate" =>
        (last.out.ok <=> (/\ Positive(model.radius)
                          /\ Positive(model.wavelength)
                          /\ Positive(model.n_medium)))

\* C3: when validate() fails, calculate() returns the CalculationError that
\* wraps exactly the ValidationError of validate(); it returns no other
\* CalculationError variant, and a spectrum fails with no other variant.
C3_CalculatePropagatesValidation ==
    /\ last.op = "calculate" =>
          IF validate(model).ok
          THEN last.out.ok
          ELSE /\ ~last.out.ok
               /\ last.out.err.variant = "Validation"
               /\ last.out.err.source = validate(model).err
    /\ (last.op = "calculate_spectrum" /\ ~last.out.ok) =>
          last.out.err.variant = "Validation"

\* C3 witness: calculate() failed on a model with a non-positive wavelength
\* and a positive radius.
C3_Witness ==
    /\ last.op = "calculate"
    /\ ~last.out.ok
    /\ Positive(model.radius)
    /\ NonPositive(model.wavelength)
    /\ last.out.err.source.reason = "Wavelength must be positive"

\* C4: the Ok/Err outcome of calculate() is that of validate() alone: a
\* model validate() accepts gets a result whether or not it has warnings.
C4_WarningsNeverBlock ==
    last.op = "calculate" => (last.out.ok <=> validate(model).ok)

\* C4 witness: calculate() returned a result for a model with x > 1, which
\* has a warning.
C4_Witness ==
    /\ last.op = "calculate"
    /\ last.out.ok
    /\ FGt(last.out.val.metadata.size_parameter, Lit(1, 0))
    /\ warnings(model) # <<>>

\* q_ext = q_sca + q_abs and check_conservation() < 1e-10 on one result.
Conserved(r) ==
    /\ FEq(r.q_ext, FAdd(r.q_sca, r.q_abs))
    /\ FLt(check_conservation(r), Tolerance)

\* C5: every result of calculate(), and every element of a spectrum, has
\* q_ext = q_sca + q_abs exactly and check_conservation() below 1e-10.
C5_Conservation ==
    /\ (last.op = "calculate" /\ last.out.ok) => Conserved(last.out.val)
    /\ (last.op = "calculate_spectrum" /\ last.out.ok) =>
          \A i \in 1..Len(last.out.val) : Conserved(last.out.val[i])

\* C6: a successful calculate_spectrum returns as many results as it was
\* given wavelengths, the i-th carrying the i-th wavelength.
C6_SpectrumOrderAndLength ==
    (last.op = "calculate_spectrum" /\ last.out.ok) =>
        /\ Len(last.out.val) = Len(last.wavelengths)
        /\ \A i \in 1..Len(last.wavelengths) :
              last.out.val[i].wavelength = last.wavelengths[i]

\* C6 witness: a successful spectrum over an unsorted sequence.
C6_Witness ==
    /\ last.op = "calculate_spectrum"
    /\ last.out.ok
    /\ Len(last.wavelengths) = 2
    /\ FGt(last.wavelengths[1], last.wavelengths[2])
    /\ last.out.val[1].wavelength = Lit(500, 0)
    /\ last.out.val[1].wavelength # model.wavelength

\* The indices of the points of a spectrum that fail.
Failing(self, wavelengths) ==
    {i \in 1..Len(wavelengths) : ~point(self, wavelengths[i]).ok}

Least(S) == CHOOSE i \in S : \A j \in S : i <= j

\* C7: calculate_spectrum succeeds only when no point fails; otherwise it
\* returns an error and no results, the error is that of the first failing
\* point in input order, and no point after that one is evaluated.
C7_SpectrumAllOrNothing ==
    last.op = "calculate_spectrum" =>
        LET failing == Failing(model, last.wavelengths)
        IN  IF failing = {}
            THEN last.out.ok /\ last.evaluated = Len(last.wavelengths)
            ELSE /\ ~last.out.ok
                 /\ DOMAIN last.out = {"ok", "err"}
                 /\ last.out.err = point(model, last.wavelengths[Least(failing)]).err
                 /\ last.evaluated = Least(failing)

\* C7 witness: the first point fails, a later point exists that would give
\* a result, and the call returned the first point's error.
C7_Witness ==
    /\ last.op = "calculate_spectrum"
    /\ Len(last.wavelengths) = 2
    /\ ~point(model, last.wavelengths[1]).ok
    /\ point(model, last.wavelengths[2]).ok
    /\ ~last.out.ok
    /\ last.evaluated = 1

\* C8: the points of a spectrum evaluated in any order by any worker, each
\* on its own clone, and put back in input order give the outcome of the
\* sequential calculate_spectrum; the model itself is never written.
C8_ShardedEqualsSequential ==
    /\ assembled.done => assembled.out = calculate_spectrum(model, job)
    /\ \A i \in 1..Len(job) :
          slot[i].st = "done" => slot[i].out = point(model, job[i])
    /\ model \in FewModels

\* C8 witness: two points that fail with different errors were computed by
\* different workers, the second point was finished before the first, and
\* the assembled outcome is the error of the first point in input order.
C8_Witness ==
    /\ assembled.done
    /\ Len(job) = 2
    /\ slot[1].by # slot[2].by
    /\ slot[2].nth = 1
    /\ ~slot[1].out.ok
    /\ ~slot[2].out.ok
    /\ slot[1].out # slot[2].out
    /\ assembled.out = slot[1].out

C10_WarningIffLarge ==
    last.op = "warnings" =>
        /\ IF FGt(size_parameter(model), Lit(1, 0))
           THEN Len(last.out) = 1
           ELSE last.out = <<>>
        /\ (model.radius = Lit(200, 0) /\ model.wavelength = Lit(500, 0)) =>
              Len(last.out) = 1
        /\ (model.radius = Lit(10, 0) /\ model.wavelength = Lit(500, 0)) =>
              last.out = <<>>
        /\ (model.radius = Lit(10, 0) /\ model.wavelength = TwoPiTen) =>
              last.out = <<>>

\* C10 witness: warnings() was called at x = 1 exactly and returned nothing.
C10_Witness ==
    /\ last.op = "warnings"
    /\ size_parameter(model) = Lit(1, 0)
    /\ last.out = <<>>

\* C11: is_applicable() is true exactly when validate() succeeds: false for
\* a non-positive radius, wavelength or medium index, true otherwise.
C11_ApplicableIffValid ==
    last.op = "is_applicable" =>
        /\ last.out = validate(model).ok
        /\ last.out = ~(\/ NonPositive(model.radius)
                        \/ NonPositive(model.wavelength)
                        \/ NonPositive(model.n_medium))

\* C11 witness: is_applicable() returned false for a model whose radius and
\* wavelength are positive and whose medium index is not.
C11_Witness ==
    /\ last.op = "is_applicable"
    /\ last.out = FALSE
    /\ Positive(model.radius)
    /\ Positive(model.wavelength)
    /\ ~validate(model).ok

\* C12: no call of validate(), is_applicable(), warnings(), calculate() or
\* calculate_spectrum() changes the model's radius, wavelength, particle
\* index or medium index.
C12_NoSideEffects == [][model' = model]_vars

\* C12 witness: calculate_spectrum() has returned a result for a wavelength
\* that is not the model's own, and the model's own wavelength is still the
\* one it was constructed with.
C12_Witness ==
    /\ last.op = "calculate_spectrum"
    /\ last.wavelengths = <<Lit(300, 0)>>
    /\ last.out.ok
    /\ last.out.val[1].wavelength = Lit(300, 0)
    /\ model.wavelength = Lit(500, 0)

\* q_abs = 0, q_ext = q_sca, c_abs = 0 and c_ext = c_sca on one result.
Lossless(r) ==
    /\ FEq(r.q_abs, Zero)
    /\ FEq(r.q_ext, r.q_sca)
    /\ FEq(r.c_abs, Zero)
    /\ FEq(r.c_ext, r.c_sca)

\* C13: for every valid model whose particle index has k = 0, calculate()
\* returns q_abs = 0 and q_ext = q_sca exactly, hence c_abs = 0 and
\* c_ext = c_sca.
C13_LosslessExact ==
    (/\ last.op = "calculate"
     /\ last.out.ok
     /\ model.n_particle.imaginary = Zero) => Lossless(last.out.val)

\* The reference formula of C14 evaluated in double precision and rounded to
\* four digits, at wavelength 500 in a medium of index 1.33:
\* m = n_particle / n_medium, F = (m^2 - 1) / (m^2 + 2),
\* q_sca = (8/3) x^4 |F|^2, q_abs = 4 x Im(F), x = 2 PI radius / wavelength.
ReferenceTable ==
    {
     [model |-> MieModel(Lit(10, 0), Lit(500, 0),
                         RefractiveIndex(Lit(5, 0 - 1), Lit(25, 0 - 1)),
                         Lit(133, 0 - 2)),
      q_sca |-> Lit(3597, 0 - 6), q_abs |-> Lit(5416, 0 - 4)],
     [model |-> MieModel(Lit(10, 0), Lit(500, 0),
                         RefractiveIndex(Lit(15, 0 - 1), Zero),
                         Lit(133, 0 - 2)),
      q_sca |-> Lit(4595, 0 - 9), q_abs |-> Zero],
     [model |-> MieModel(Lit(10, 0), Lit(500, 0),
                         RefractiveIndex(Lit(0 - 1, 0), Lit(25, 0 - 1)),
                         Lit(133, 0 - 2)),
      q_sca |-> Lit(1768, 0 - 6), q_abs |-> Lit(0 - 4775, 0 - 4)],
     [model |-> MieModel(Lit(10, 0), Lit(500, 0),
                         RefractiveIndex(Lit(15, 0 - 1), Lit(0 - 1, 0)),
                         Lit(133, 0 - 2)),
      q_sca |-> Lit(1931, 0 - 7), q_abs |-> Lit(0 - 2507, 0 - 4)],
     [model |-> MieModel(Lit(200, 0), Lit(500, 0),
                         RefractiveIndex(Lit(5, 0 - 1), Lit(25, 0 - 1)),
                         Lit(133, 0 - 2)),
      q_sca |-> Lit(5756, 0 - 1), q_abs |-> Lit(1083, 0 - 2)],
     [model |-> MieModel(Lit(200, 0), Lit(500, 0),
                         RefractiveIndex(Lit(15, 0 - 1), Zero),
                         Lit(133, 0 - 2)),
      q_sca |-> Lit(7351, 0 - 4), q_abs |-> Zero],
     [model |-> MieModel(Lit(200, 0), Lit(500, 0),
                         RefractiveIndex(Lit(0 - 1, 0), Lit(25, 0 - 1)),
                         Lit(133, 0 - 2)),
      q_sca |-> Lit(2829, 0 - 1), q_abs |-> Lit(0 - 9550, 0 - 3)],
     [model |-> MieModel(Lit(200, 0), Lit(500, 0),
                         RefractiveIndex(Lit(15, 0 - 1), Lit(0 - 1, 0)),
                         Lit(133, 0 - 2)),
      q_sca |-> Lit(3089, 0 - 2), q_abs |-> Lit(0 - 5014, 0 - 3)],
     [model |-> MieModel(Lit(5000, 0), Lit(500, 0),
                         RefractiveIndex(Lit(5, 0 - 1), Lit(25, 0 - 1)),
                         Lit(133, 0 - 2)),
      q_sca |-> Lit(2248, 5), q_abs |-> Lit(2708, 0 - 1)],
     [model |-> MieModel(Lit(5000, 0), Lit(500, 0),
                         RefractiveIndex(Lit(15, 0 - 1), Zero),
                         Lit(133, 0 - 2)),
      q_sca |-> Lit(2872, 2), q_abs |-> Zero],
     [model |-> MieModel(Lit(5000, 0), Lit(500, 0),
                         RefractiveIndex(Lit(0 - 1, 0), Lit(25, 0 - 1)),
                         Lit(133, 0 - 2)),
      q_sca |-> Lit(1105, 5), q_abs |-> Lit(0 - 2387, 0 - 1)],
     [model |-> MieModel(Lit(5000, 0), Lit(500, 0),
                         RefractiveIndex(Lit(15, 0 - 1), Lit(0 - 1, 0)),
                         Lit(133, 0 - 2)),
      q_sca |-> Lit(1207, 4), q_abs |-> Lit(0 - 1253, 0 - 1)]
    }

\* Relative tolerance of the comparison with the reference values.
RelTol == Lit(1, 0 - 1)

\* a agrees with the reference value b within the relative tolerance.
Agrees(a, b) == FLe(FAbs(FSub(a, b)), FMul(RelTol, FAbs(b)))

\* C14: on every model of the reference table calculate() returns the
\* q_sca and q_abs of the reference formula m = n_particle / n_medium,
\* F = (m^2 - 1) / (m^2 + 2), q_sca = (8/3) x^4 |F|^2, q_abs = 4 x Im(F),
\* to the precision of the modelled arithmetic.
C14_ReferenceFormula ==
    \A t \in ReferenceTable :
        (last.op = "calculate" /\ model = t.model) =>
            /\ last.out.ok
            /\ Agrees(last.out.val.q_sca, t.q_sca)
            /\ Agrees(last.out.val.q_abs, t.q_abs)

\* C14 witness: calculate() has returned on the Au-like particle of radius
\* 10 of the reference table.
C14_Witness ==
    /\ last.op = "calculate"
    /\ last.out.ok
    /\ \E t \in ReferenceTable : model = t.model /\ t.model.radius = Lit(10, 0)
    /\ model.n_particle = RefractiveIndex(Lit(5, 0 - 1), Lit(25, 0 - 1))

\* The geometric area PI * radius^2 of a model.
Area(self) == FMul(PI, Powi2(self.radius))

\* Four rounding errors of the modelled arithmetic, as a relative tolerance.
RoundTol == Lit(2, 1 - Digits)

\* c_ext agrees with c_sca + c_abs up to rounding.
SumsUp(r) ==
    FLe(FAbs(FSub(r.c_ext, FAdd(r.c_sca, r.c_abs))),
        FMul(RoundTol, FAdd(FAbs(r.c_sca), FAbs(r.c_abs))))

Described(r, self, wl) ==
    /\ r.metadata.num_terms = Some(1)
    /\ r.metadata.converged = TRUE
    /\ r.metadata.size_parameter = FDiv(FMul(FMul(Lit(2, 0), PI), self.radius), wl)
    /\ r.metadata.notes = <<"Rayleigh approximation">>
    /\ r.wavelength = wl

\* C16: every result of calculate() and every element of a spectrum has a
\* term count of 1, converged = true, the size parameter x of the model at
\* the wavelength of the point, the single note "Rayleigh approximation",
\* and the wavelength of the point.
C16_Metadata ==
    /\ (last.op = "calculate" /\ last.out.ok) =>
          Described(last.out.val, model, model.wavelength)
    /\ (last.op = "calculate_spectrum" /\ last.out.ok) =>
          \A i \in 1..Len(last.out.val) :
              Described(last.out.val[i], model, last.wavelengths[i])

\* C16 witness: a spectrum of two points at different wavelengths whose
\* results carry different size parameters, neither the model's own.
C16_Witness ==
    /\ last.op = "calculate_spectrum"
    /\ last.out.ok
    /\ Len(last.out.val) = 2
    /\ last.out.val[1].metadata.size_parameter
           # last.out.val[2].metadata.size_parameter
    /\ last.out.val[1].metadata.size_parameter # size_parameter(model)
    /\ last.out.val[2].metadata.size_parameter # size_parameter(model)

\* The factors by which radius and wavelength are scaled.
ScaleFactors == {Lit(2, 0), Lit(3, 0), Lit(10, 0)}

\* a and b are the same value, or agree up to rounding.
Same(a, b) ==
    \/ a = b
    \/ FLe(FAbs(FSub(a, b)), FMul(RoundTol, FAbs(b)))

\* C17: size_parameter() returns 2 PI radius / wavelength; for radius 50 and
\* wavelength 500 it is within 1e-10 of 2 PI 50 / 500; scaling the radius by
\* a factor scales x by that factor and scaling the wavelength divides x by
\* it, up to rounding.
C17_SizeParameter ==
    last.op = "size_parameter" =>
        /\ last.out = FDiv(FMul(FMul(Lit(2, 0), PI), model.radius),
                           model.wavelength)
        /\ (model.radius = Lit(50, 0) /\ model.wavelength = Lit(500, 0)) =>
              FLt(FAbs(FSub(last.out,
                            FDiv(FMul(FMul(Lit(2, 0), PI), Lit(50, 0)),
                                 Lit(500, 0)))),
                  Tolerance)
        /\ \A c \in ScaleFactors :
              /\ Same(size_parameter([model EXCEPT !.radius = FMul(c, @)]),
                      FMul(c, last.out))
              /\ Same(size_parameter([model EXCEPT !.wavelength = FMul(c, @)]),
                      FDiv(last.out, c))

\* C17 witness: size_parameter() has returned for radius 10 and wavelength
\* 500, and tripling the radius does not give the f64 triple of x.
C17_Witness ==
    /\ last.op = "size_parameter"
    /\ model.radius = Lit(10, 0)
    /\ model.wavelength = Lit(500, 0)
    /\ IsFinite(last.out)
    /\ size_parameter([model EXCEPT !.radius = FMul(Lit(3, 0), @)])
          # FMul(Lit(3, 0), last.out)

\* C18: for every model that passes validate() and has k >= 0, calculate()
\* returns q_sca >= 0, q_abs >= 0 and q_ext >= q_sca + q_abs - 1e-10.
C18_NonNegative ==
    (/\ last.op = "calculate"
     /\ last.out.ok
     /\ FGe(model.n_particle.imaginary, Zero)) =>
        /\ FGe(last.out.val.q_sca, Zero)
        /\ FGe(last.out.val.q_abs, Zero)
        /\ FGe(last.out.val.q_ext,
               FSub(FAdd(last.out.val.q_sca, last.out.val.q_abs), Tolerance))

\* The ranges the input fields are meant to stay in.
Within(v, lo, hi) == FGe(v, lo) /\ FLe(v, hi)

IndexInRange(n_real, n_imag) ==
    /\ Within(n_real, Lit(0 - 10, 0), Lit(10, 0))
    /\ Within(n_imag, Zero, Lit(10, 0))

InRange(state) ==
    /\ Within(state.particle_radius, Lit(1, 0), Lit(1000, 0))
    /\ Within(state.wavelength, Lit(200, 0), Lit(2000, 0))
    /\ IndexInRange(state.n_particle_real, state.n_particle_imag)
    /\ Within(state.n_medium, Lit(1, 0), Lit(3, 0))

\* C19: in every state reachable through the window's actions from the
\* default state the five input fields are within their ranges (as is the
\* index of every preset and of every element of the periodic table), so
\* no calculation started from the window ends in an error: none has, and
\* one started now would not.
C19_RangesEnforced ==
    /\ InRange(app.state)
    /\ \A i \in DOMAIN MATERIAL_PRESETS :
          IndexInRange(MATERIAL_PRESETS[i].n_real, MATERIAL_PRESETS[i].n_imag)
    /\ \A c \in elements :
          IndexInRange(get_element_properties(c[1], c[3], c[2]).n_real,
                       get_element_properties(c[1], c[3], c[2]).n_imag)
    /\ app.error_message = None
    /\ validate(model_of(app.state)).ok
    /\ calculate(model_of(app.state)).ok

\* Both calculations have run on a radius an out-of-range entry was clamped
\* to, after a preset was applied.
C19_Witness ==
    /\ app.state.particle_radius = Lit(1000, 0)
    /\ app.result # None
    /\ Len(app.spectrum_results) = 101
    /\ app.error_message = None

\* C20: the methods the traits provide return fixed values whatever the
\* value they are called on: can_parallelize() is true,
\* recommended_chunk_size() is 100, and the warnings() of PhysicsModel is
\* the empty sequence.
C20_ProvidedDefaults ==
    /\ last.op = "can_parallelize" => last.out = TRUE
    /\ last.op = "recommended_chunk_size" => last.out = 100
    /\ last.op = "PhysicsModel::warnings" => last.out = <<>>

\* C20 witness: the chunk size was asked of a value that does not even pass
\* validate().
C20_Witness ==
    /\ last.op = "recommended_chunk_size"
    /\ last.out = 100
    /\ ~validate(model).ok

UnitOps == {"to_meters", "to_energy_ev", "to_frequency_hz", "to_celsius"}

TableEntries == {ConstantsTable[name] : name \in DOMAIN ConstantsTable}

\* C21: the unit conversions use the constants table exclusively:
\* to_energy_ev is HC_EV_NM / wavelength, to_frequency_hz is C_NM_S /
\* wavelength, to_meters is the value times NM_TO_M, and no conversion works
\* with a factor that is not an entry of the table.
C21_TableOnly ==
    last.op \in UnitOps =>
        /\ last.op = "to_energy_ev" =>
              last.out = FDiv(literal(ConstantsTable.HC_EV_NM), last.wavelengths[1])
        /\ last.op = "to_frequency_hz" =>
              last.out = FDiv(literal(ConstantsTable.C_NM_S), last.wavelengths[1])
        /\ last.op = "to_meters" =>
              last.out = FMul(last.wavelengths[1], literal(ConstantsTable.NM_TO_M))
        /\ unit_literal[last.op] \in TableEntries

\* The three conversions C21 names agree in value with the table.
C21_NamedAgree ==
    last.op \in UnitOps \ {"to_celsius"} =>
        /\ last.op = "to_energy_ev" =>
              last.out = FDiv(literal(ConstantsTable.HC_EV_NM), last.wavelengths[1])
        /\ last.op = "to_frequency_hz" =>
              last.out = FDiv(literal(ConstantsTable.C_NM_S), last.wavelengths[1])
        /\ last.op = "to_meters" =>
              last.out = FMul(last.wavelengths[1], literal(ConstantsTable.NM_TO_M))
        /\ unit_literal[last.op] \in TableEntries

\* The model with the parameters of self and the given wavelength.
At(self, wl) == MieModel(self.radius, wl, self.n_particle, self.n_medium)

\* C22: in a successful calculate_spectrum the i-th result is the result of
\* calculate() on a model with the same radius, particle index and medium
\* index and the i-th wavelength, and there are no other results.
C22_SweepIsMappedEngine ==
    (last.op = "calculate_spectrum" /\ last.out.ok) =>
        /\ DOMAIN last.out.val = DOMAIN last.wavelengths
        /\ \A i \in DOMAIN last.wavelengths :
              calculate(At(model, last.wavelengths[i])) = Ok(last.out.val[i])

\* C22 witness: a successful sweep over two wavelengths, neither the model's
\* own, whose results differ from each other and from the single point.
C22_Witness ==
    /\ last.op = "calculate_spectrum"
    /\ last.out.ok
    /\ Len(last.wavelengths) = 2
    /\ model.wavelength \notin {last.wavelengths[1], last.wavelengths[2]}
    /\ last.out.val[1] # last.out.val[2]
    /\ calculate(model).ok
    /\ calculate(model).val \notin {last.out.val[1], last.out.val[2]}
    /\ calculate(At(model, last.wavelengths[2])) = Ok(last.out.val[2])

\* q_ext = q_sca + q_abs, as f64 values.
Balanced(r) == FEq(r.q_ext, FAdd(r.q_sca, r.q_abs))

\* C23: check_conservation() on any OpticalResult returns
\* |q_ext - (q_sca + q_abs)|, which is never negative and is 0 exactly when
\* q_ext = q_sca + q_abs.
C23_Magnitude ==
    last.op = "check_conservation" =>
        /\ last.out = FAbs(FSub(last.wavelengths[1].q_ext,
                                FAdd(last.wavelengths[1].q_sca,
                                     last.wavelengths[1].q_abs)))
        /\ ~FLt(last.out, Zero)
        /\ FEq(last.out, Zero) <=> Balanced(last.wavelengths[1])

\* The same on the results whose three efficiencies and their sum are finite.
C23_FiniteMagnitude ==
    (/\ last.op = "check_conservation"
     /\ IsFinite(last.wavelengths[1].q_ext)
     /\ IsFinite(FAdd(last.wavelengths[1].q_sca, last.wavelengths[1].q_abs))) =>
        /\ IsFinite(last.out)
        /\ FGe(last.out, Zero)
        /\ FEq(last.out, Zero) <=> Balanced(last.wavelengths[1])

\* Values a wavelength field can hold besides the model's own.
OwnWavelengths == WavelengthInputs \cup {NaN, Lit(0 - 1, 0), PInf}

\* C24: the outcome of calculate_spectrum does not depend on the model's own
\* wavelength: any other value in that field gives the same outcome, and a
\* model whose own wavelength is non-positive, on which validate() and
\* calculate() fail, returns a full successful spectrum when its radius and
\* medium index and every wavelength of the sequence are positive.
C24_OwnWavelengthIgnored ==
    last.op = "calculate_spectrum" =>
        /\ \A w \in OwnWavelengths :
              calculate_spectrum(At(model, w), last.wavelengths) = last.out
        /\ (/\ NonPositive(model.wavelength)
            /\ Positive(model.radius)
            /\ Positive(model.n_medium)
            /\ \A i \in DOMAIN last.wavelengths : Positive(last.wavelengths[i])) =>
              /\ ~validate(model).ok
              /\ ~calculate(model).ok
              /\ last.out.ok
              /\ Len(last.out.val) = Len(last.wavelengths)

\* C24 witness: a full spectrum of two points from a model whose own
\* wavelength is 0 and on which calculate() fails.
C24_Witness ==
    /\ last.op = "calculate_spectrum"
    /\ model.wavelength = Zero
    /\ ~calculate(model).ok
    /\ last.out.ok
    /\ Len(last.out.val) = 2
    /\ last.wavelengths[1] # last.wavelengths[2]

\* C25: calculate_spectrum on an empty sequence returns success with no
\* results for every model, also one on which validate() fails; on a
\* non-empty sequence a model with non-positive radius or medium index gets
\* the validation error of its first point and no results.
C25_EmptyAndInvalid ==
    last.op = "calculate_spectrum" =>
        /\ last.wavelengths = <<>> => last.out = Ok(<<>>)
        /\ (/\ last.wavelengths # <<>>
            /\ NonPositive(model.radius) \/ NonPositive(model.n_medium)) =>
              /\ ~last.out.ok
              /\ ~validate(At(model, last.wavelengths[1])).ok
              /\ last.out.err =
                    FromValidation(validate(At(model, last.wavelengths[1])).err)
              /\ last.evaluated = 1

\* C25 witness: the empty sequence on a model with a non-positive radius.
C25_Witness ==
    /\ last.op = "calculate_spectrum"
    /\ last.wavelengths = <<>>
    /\ NonPositive(model.radius)
    /\ ~validate(model).ok
    /\ last.out = Ok(<<>>)

\* A non-empty sequence on a model with a non-positive medium index and
\* positive radius: the error of validate() on the medium index.
C25_WitnessInvalid ==
    /\ last.op = "calculate_spectrum"
    /\ Len(last.wavelengths) = 2
    /\ Positive(model.radius)
    /\ NonPositive(model.n_medium)
    /\ Positive(last.wavelengths[1])
    /\ ~last.out.ok
    /\ last.out.err =
          FromValidation(InvalidParameter("Medium refractive index must be positive"))

\* The error validate() reports for a parameter.
Rejected(parameter) ==
    Err(InvalidParameter(
        CASE parameter = "radius" -> "Radius must be positive"
          [] parameter = "wavelength" -> "Wavelength must be positive"
          [] parameter = "n_medium" -> "Medium refractive index must be positive"))

\* C26: validate() reports only the first violation in the order radius,
\* wavelength, medium index, and calculate_spectrum with a non-positive
\* radius reports the radius error whatever the first wavelength is.
C26_FirstViolation ==
    /\ last.op = "validate" =>
          /\ NonPositive(model.radius) => last.out = Rejected("radius")
          /\ (~NonPositive(model.radius) /\ NonPositive(model.wavelength)) =>
                last.out = Rejected("wavelength")
          /\ (/\ ~NonPositive(model.radius)
              /\ ~NonPositive(model.wavelength)
              /\ NonPositive(model.n_medium)) => last.out = Rejected("n_medium")
    /\ (/\ last.op = "calculate_spectrum"
        /\ last.wavelengths # <<>>
        /\ NonPositive(model.radius)) =>
          last.out = Err(FromValidation(Rejected("radius").err))

\* C26 witness: validate() on a model whose three parameters are all
\* non-positive names the radius.
C26_Witness ==
    /\ last.op = "validate"
    /\ NonPositive(model.radius)
    /\ NonPositive(model.wavelength)
    /\ NonPositive(model.n_medium)
    /\ last.out = Rejected("radius")

\* A spectrum whose first wavelength is non-positive, on a model with a
\* non-positive radius: the radius error.
C26_WitnessSpectrum ==
    /\ last.op = "calculate_spectrum"
    /\ NonPositive(model.radius)
    /\ last.wavelengths # <<>>
    /\ NonPositive(last.wavelengths[1])
    /\ last.out = Err(FromValidation(Rejected("radius").err))

\* What calculate_single leaves in the window `after`, given the window
\* `before` and the outcome r of calculate() on its input fields.
SingleOutcome(before, after, r) ==
    /\ ~after.calculating
    /\ after.state = before.state
    /\ IF r.ok
       THEN /\ after.error_message = None
            /\ after.result = Some(r.val)
       ELSE /\ after.error_message = Some(error_msg("Calculation error: ", r.err))
            /\ after.error_message # None
            /\ after.result = before.result

\* C27: after calculate_single, calculating is false and either the
\* calculation succeeded, error_message is None and result holds the new
\* value, or it failed, error_message holds the error text and result is as
\* it was before; an error message from an earlier calculation does not
\* survive a successful one.
C27_SingleOutcome ==
    [][CalculateSingle =>
         SingleOutcome(app, app', calculate(model_of(app.state)))]_vars

\* C27 witness: a failed single-point calculation on a window that holds the
\* result of an earlier one: the message is set and the result is still there.
C27_Witness ==
    /\ frame > 0
    /\ ~app.calculating
    /\ app.error_message =
          Some(error_msg("Calculation error: ",
                         FromValidation(InvalidParameter("Radius must be positive"))))
    /\ app.result # None
    /\ app.result = Calculated.result

\* A successful single-point calculation on the window a failed one left:
\* the message is gone.
C27_WitnessCleared ==
    /\ frame > 0
    /\ app.log_messages[1] = Failed.log_messages[1]
    /\ Len(app.log_messages) > Len(Failed.log_messages)
    /\ app.error_message = None
    /\ app.result = Some(calculate(model_of(AppState_default)).val)

\* The step has the log of a calculate_spectrum call: its last entry but one
\* is the entry the handler starts with.
SpectrumLogged(before, after) ==
    /\ Len(after.log_messages) >= 2
    /\ after.log_messages[Len(after.log_messages) - 1].message =
          message(tr(before, "Calculating full spectrum (300-800 nm)...",
                             "Calculando espectro completo (300-800 nm)..."),
                  None)

\* What calculate_spectrum leaves in the window `after`, given the window
\* `before` and the outcome r of the sweep on its input fields.
SpectrumOutcome(before, after, r) ==
    /\ IF r.ok
       THEN /\ after.spectrum_results = r.val
            /\ Len(after.spectrum_results) = 101
            /\ \A i \in 1..101 :
                  after.spectrum_results[i].wavelength = Lit(300 + 5 * (i - 1), 0)
            /\ \A i \in 1..100 :
                  FLt(after.spectrum_results[i].wavelength,
                      after.spectrum_results[i + 1].wavelength)
            /\ after.plot_reset_counter = before.plot_reset_counter + 1
       ELSE /\ after.spectrum_results = before.spectrum_results
            /\ after.plot_reset_counter = before.plot_reset_counter
            /\ after.error_message =
                  Some(error_msg("Spectrum calculation error: ", r.err))
    /\ after.result = before.result
    /\ after.state = before.state
    /\ ~before.calculating
    /\ ~after.calculating

\* C28: a successful calculate_spectrum replaces spectrum_results by 101
\* results with the wavelengths 300, 305, ..., 800 in ascending order and adds
\* 1 to plot_reset_counter; a failed one leaves both as they were and sets
\* error_message; either way result, the input fields and calculating
\* (false) are as before.
C28_SpectrumOutcome ==
    [][(SpectrumLogged(app, app') /\ CalculateFullSpectrum) =>
         SpectrumOutcome(app, app',
                         calculate_spectrum(model_of(app.state), spectrum_wavelengths))]_vars

\* Every calculate_spectrum step has the log SpectrumLogged looks for.
C28_Logged == [][CalculateFullSpectrum => SpectrumLogged(app, app')]_vars

\* C28 witness: a second successful spectrum, on a window that held the
\* results of an earlier one: 101 results and the counter at 2.
C28_Witness ==
    /\ frame > 0
    /\ app.plot_reset_counter = 2
    /\ Len(app.spectrum_results) = 101
    /\ app.spectrum_results[1].wavelength = Lit(300, 0)
    /\ app.spectrum_results[101].wavelength = Lit(800, 0)
    /\ app.error_message = None
    /\ ~app.calculating

\* A failed spectrum on a window that holds earlier results: they stay, the
\* counter stays and the message is set.
C28_WitnessFailed ==
    /\ frame > 0
    /\ app.error_message =
          Some(error_msg("Spectrum calculation error: ",
                         FromValidation(InvalidParameter("Radius must be positive"))))
    /\ app.spectrum_results = Calculated.spectrum_results
    /\ app.plot_reset_counter = 1
    /\ app.result = Calculated.result

\* The number of entries a log of the given length loses when k are added.
Dropped(length, k) == IF length + k > 100 THEN length + k - 100 ELSE 0

\* new is old with k entries added at the end and the oldest entries dropped
\* beyond 100, the others in their order.
Appended(old, new, k) ==
    /\ Len(new) = Len(old) + k - Dropped(Len(old), k)
    /\ SubSeq(new, 1, Len(new) - k) =
          SubSeq(old, Dropped(Len(old), k) + 1, Len(old))

\* C29: log_messages always holds between 1 and 100 entries; a handler that
\* adds entries keeps the others in order and drops the oldest beyond 100 (one
\* entry added to a log of 100 drops exactly the oldest); clearing the log
\* leaves exactly one entry.
C29_LogBounded ==
    /\ [](Len(app.log_messages) \in 1..100)
    /\ [][app'.log_messages # app.log_messages =>
            \/ ClearLog /\ Len(app'.log_messages) = 1
            \/ Appended(app.log_messages, app'.log_messages, 1)
            \/ Appended(app.log_messages, app'.log_messages, 2)]_vars
    /\ [][ClearLog => Len(app'.log_messages) = 1]_vars
    /\ [][(Len(app.log_messages) = 100 /\ Len(app'.log_messages) = 100
             /\ app'.log_messages[99] = app.log_messages[100]) =>
            app'.log_messages = Append(Tail(app.log_messages), app'.log_messages[100])]_vars

\* C29 witness: one entry was added to a log of 100 entries: the oldest is
\* gone, the second oldest is first and the log still holds 100.
C29_Witness ==
    /\ frame > 0
    /\ Len(app.log_messages) = 100
    /\ app.log_messages[1] = LongLog(100)[2]
    /\ app.log_messages[99] = LongLog(100)[100]
    /\ app.log_messages[100] \notin {LongLog(100)[i] : i \in 1..100}

\* The log after "Clear Log" on a log of 100 entries.
C29_WitnessCleared ==
    /\ frame = 1
    /\ Len(app.log_messages) = 1
    /\ app.log_messages[1].message.text = "Log cleared"
    /\ app.state.particle_radius = Zero
    /\ app.state.n_medium # Lit(0 - 1, 0)
    /\ app.spectrum_results # <<>>

\* The fields no step of the element dialogs writes.
Untouched(before, after) ==
    /\ after.state.particle_radius = before.state.particle_radius
    /\ after.state.wavelength = before.state.wavelength
    /\ after.state.n_medium = before.state.n_medium
    /\ after.result = before.result
    /\ after.spectrum_results = before.spectrum_results

\* The elements the periodic table has a button for.
Offered ==
    {get_element_properties(c[1], c[3], c[2]) : c \in {d \in elements : d[1] # ""}}

\* C30: choosing an element sets selected_element, opens the properties
\* dialog and closes the periodic table; Apply copies the element's n and k
\* into the particle index and closes the dialog; Cancel closes it and leaves
\* every input field as it was; none of them changes radius, wavelength,
\* medium index, result or spectrum_results; the properties dialog is never
\* open without a selected element.
C30_ElementFlow ==
    /\ [](app.show_element_properties => app.selected_element # None)
    /\ [][ChooseElement =>
            /\ app'.selected_element # None
            /\ app'.selected_element[1] \in Offered
            /\ app'.show_element_properties
            /\ ~app'.show_periodic_table
            /\ app'.state = app.state
            /\ Untouched(app, app')]_vars
    /\ [][ApplyElement =>
            /\ app'.state.n_particle_real = app.selected_element[1].n_real
            /\ app'.state.n_particle_imag = app.selected_element[1].n_imag
            /\ ~app'.show_element_properties
            /\ app'.selected_element = app.selected_element
            /\ Untouched(app, app')]_vars
    /\ [][CancelElement =>
            /\ ~app'.show_element_properties
            /\ app'.state = app.state
            /\ app'.selected_element = app.selected_element
            /\ Untouched(app, app')]_vars

\* C30 witness: an element was chosen and applied: both dialogs are closed
\* and the particle index is the element's, not the default.
C30_Witness ==
    /\ app.selected_element # None
    /\ ~app.show_element_properties
    /\ ~app.show_periodic_table
    /\ app.state.n_particle_real = app.selected_element[1].n_real
    /\ app.state.n_particle_imag = app.selected_element[1].n_imag
    /\ app.state.n_particle_real # AppState_default.n_particle_real
    /\ app.state.particle_radius = AppState_default.particle_radius

\* An element was chosen and the dialog cancelled: the inputs are the
\* defaults.
C30_WitnessCancelled ==
    /\ app.selected_element # None
    /\ ~app.show_element_properties
    /\ app.state = AppState_default
    /\ frame = 3

====
